---- MODULE Spec2Model ----
(***************************************************************************)
(* The backup worker of src/src/lib/backupRunner.ts as a state machine.    *)
(*                                                                         *)
(* One worker process receives IPC messages, runs backupDatabase for each  *)
(* startBackup command, and talks to its collaborators (dump tooling,      *)
(* dumper, object store, remote control plane), which answer or fail       *)
(* nondeterministically.  Every action is one turn of the Node event loop: *)
(* the code that runs between two awaits, or one stream callback.          *)
(***************************************************************************)
EXTENDS Integers, Sequences, FiniteSets, TLC

(***************************************************************************)
(* Bounds of the model.                                                    *)
(***************************************************************************)
\* backupDatabase invocations one worker process is followed through
MaxJobs == 2
\* ciphertext bytes the dumper produces at most
MaxPayload == 2
\* largest chunk the dumper emits at once
MaxChunk == 2
\* largest upload part, in model bytes (200 MB in the deployment)
PartSize == 8
\* head room of the stream buffers over the largest part (1 MB in the deployment)
Slack == 1
\* longest byte string whose chunkings are compared
MaxHashed == 3

Jobs == 1..MaxJobs

Min(a, b) == IF a < b THEN a ELSE b

RECURSIVE Flat(_)
\* the bytes of a sequence of chunks
Flat(chunks) == IF chunks = <<>> THEN <<>> ELSE Head(chunks) \o Flat(Tail(chunks))

(***************************************************************************)
(* Values the collaborators and the Controller supply.                     *)
(***************************************************************************)
SubscriptionTypes == {"free", "premium", "trial"}
\* the configs a worker is started with: one per subscription type
ConfigOf(subscriptionType) ==
    [subscriptionType |-> subscriptionType,
     dbName |-> IF subscriptionType = "free" THEN "mydb" ELSE "shop",
     agentId |-> IF subscriptionType = "premium" THEN "agent-1" ELSE "agent-2",
     publicKey |-> "PEM"]
Configs == {ConfigOf(t) : t \in SubscriptionTypes}
NoConfig == [subscriptionType |-> "", dbName |-> "", agentId |-> "", publicKey |-> ""]

\* a backup record: {} has every field undefined
EmptyRecord == [id |-> "undefined", filename |-> <<>>, s3uploadId |-> "undefined"]
SeededRecord == [id |-> "bk-7", filename |-> <<>>, s3uploadId |-> "undefined"]
\* payload.backupInfo as the Controller sends it: with or without a backup
BackupInfos == {[hasBackup |-> FALSE, backup |-> EmptyRecord],
                [hasBackup |-> TRUE, backup |-> SeededRecord]}

EncryptedKeys == {<<171>>, <<18, 52>>}
IVs == {<<9>>}
CipherBytes == {0, 255}
DumpChunks == UNION {[1..n -> CipherBytes] : n \in 1..MaxChunk}
UploadIds == {"upl-1", "upl-2"}
\* the ETag the object store answers a part with: the MD5 of the part
ETagOf(partHash) == <<"etag">> \o partHash
\* DateTime.utc() readings: day, month, year, hour, minute
Instants == {[day |-> 1, month |-> 11, year |-> 2026, hour |-> 23, minute |-> 59]}

\* errors a rejected call or a fault carries: code, response.data, message, stack
ErrCode == [code |-> "ECONNRESET", hasResponse |-> FALSE, data |-> "",
            message |-> "socket hang up", stack |-> "trace"]
ErrResponse == [code |-> "", hasResponse |-> TRUE, data |-> "InternalError",
                message |-> "Request failed with status code 500", stack |-> "trace"]
ErrPlain == [code |-> "", hasResponse |-> FALSE, data |-> "",
             message |-> "dump program missing", stack |-> "trace"]
Errors == {ErrCode, ErrResponse, ErrPlain}
\* reading a property of undefined
TypeError == [code |-> "", hasResponse |-> FALSE, data |-> "",
              message |-> "Cannot read property of undefined", stack |-> "trace"]
NoError == [code |-> "", hasResponse |-> FALSE, data |-> "", message |-> "", stack |-> ""]

(***************************************************************************)
(* IPC messages of the Controller, after JSON.parse.                       *)
(***************************************************************************)
MessageShapes == {"nonJson", "otherType", "noPayload", "noBackupInfo", "noConfig", "startBackup"}

MessageOf(shape, cfg, info) ==
    [json |-> shape # "nonJson",
     type |-> IF shape \in {"nonJson", "otherType"} THEN "status" ELSE "startBackup",
     hasPayload |-> shape \in {"noBackupInfo", "noConfig", "startBackup"},
     hasConfig |-> shape \in {"noBackupInfo", "startBackup"},
     config |-> IF shape \in {"noBackupInfo", "startBackup"} THEN cfg ELSE NoConfig,
     hasBackupInfo |-> shape \in {"noConfig", "startBackup"},
     backupInfo |-> info]

Messages == {MessageOf(s, c, i) : s \in MessageShapes, c \in Configs, i \in BackupInfos}

\* the handler calls backupDatabase: the text parses, the type is startBackup
\* and reading payload.config does not throw
CallsBackupDatabase(m) == m.json /\ m.type = "startBackup" /\ m.hasPayload

(***************************************************************************)
(* Pure parts of backupDatabase.                                           *)
(***************************************************************************)
\* Buffer.from('DBACKED')
Magic == <<68, 66, 65, 67, 75, 69, 68>>
\* Buffer.from([...VERSION]): the fixed-width format version
VERSION == <<0, 0, 1>>

\* new Uint32Array([n]).buffer: four bytes in the byte order of the host
Uint32Bytes(n, littleEndian) ==
    LET b0 == n % 256
        b1 == (n \div 256) % 256
        b2 == (n \div 65536) % 256
        b3 == (n \div 16777216) % 256
    IN IF littleEndian THEN <<b0, b1, b2, b3>> ELSE <<b3, b2, b1, b0>>

\* the header writes with the length field moved behind the wrapped key
HeaderChunksLengthAfterKey(encryptedKey, iv, littleEndian) ==
    <<Magic, VERSION, encryptedKey, Uint32Bytes(Len(encryptedKey), littleEndian), iv>>

\* the five header writes, one chunk each, in the order of the code
HeaderChunks(encryptedKey, iv, littleEndian) ==
    <<Magic, VERSION, Uint32Bytes(Len(encryptedKey), littleEndian), encryptedKey, iv>>

\* a high-water mark below the largest part
HighWaterMarkBelowPart == PartSize - 1

\* new PassThrough({ highWaterMark }): the largest part plus head room
HighWaterMark == PartSize + Slack

\* hash.update of one byte: a rolling digest standing for MD5's compression
HashByte(h, b) == (h * 31 + b + 1) % 256

\* a digest that absorbs only the last byte of every write
HashUpdateLastByte(h, bytes) ==
    IF bytes = <<>> THEN h ELSE HashByte(h, bytes[Len(bytes)])

RECURSIVE HashUpdate(_, _)
\* the hash after it consumed the bytes of a chunk
HashUpdate(h, bytes) ==
    IF bytes = <<>> THEN h ELSE HashUpdate(HashByte(h, Head(bytes)), Tail(bytes))

\* createHash('md5')
HashInit == HashUpdate(0, <<>>)

\* digest.toString('hex'): two hexadecimal digits
Hex(h) == <<h \div 16, h % 16>>

\* the digest of a byte sequence hashed in one piece
Digest(bytes) == Hex(HashUpdate(HashInit, bytes))

\* DateTime.utc().toFormat('ddLLyyyyHHmm')
FormatInstant(t) == <<t.day, t.month, t.year, t.hour, t.minute>>

\* `backup_${config.dbName}_${...}`
ObjectName(dbName, t) == <<"backup_", dbName, "_">> \o FormatInstant(t)

\* backupInfo.backup || {}
InitialRecord(info) == IF info.hasBackup THEN info.backup ELSE EmptyRecord

\* lines 47-50 without the tier test
OpensSessionAlways(subscriptionType) == TRUE

\* config.subscriptionType === SUBSCRIPTION_TYPE.free: the worker opens its own session
OpensOwnSession(subscriptionType) == subscriptionType = "free"

\* generateBackupUrl without the tier test
UrlApiRemote(subscriptionType) == "getUploadPartUrl"

\* generateBackupUrl: which collaborator signs the URL of a part
UrlApi(subscriptionType) ==
    IF subscriptionType = "premium" THEN "getUploadPartUrl"
    ELSE "getUploadPartUrlFromLocalCredentials"

\* the finalize call after uploadToS3 returned; "none": neither branch is taken
Finalizer(subscriptionType) ==
    IF subscriptionType = "premium" THEN "finishUpload"
    ELSE IF subscriptionType = "free" THEN "completeMultipartUpload"
    ELSE "none"

\* e.code || (e.response && e.response.data) || e.message
CatchDetail(e) ==
    IF e.code # "" THEN e.code
    ELSE IF e.hasResponse /\ e.data # "" THEN e.data
    ELSE e.message

\* a catch that reports the message of the error only
CatchMessageOfMessage(e) ==
    [type |-> "error", by |-> "catch", quoted |-> TRUE,
     detail |-> e.message, trace |-> e.stack]

\* the message the catch of backupDatabase sends; the detail is JSON.stringify'd
CatchMessage(e) ==
    [type |-> "error", by |-> "catch", quoted |-> TRUE,
     detail |-> CatchDetail(e), trace |-> e.stack]

\* the uncaughtException handler reads error.responserror.data when the error
\* has no code and has a response: error.responserror is undefined, the read throws
HandlerThrows(e) == e.code = "" /\ e.hasResponse

\* error.code || (error.response && error.responserror.data) || error.message
HandlerDetail(e) == IF e.code # "" THEN e.code ELSE e.message

\* the message the uncaughtException handler sends
HandlerMessage(e) ==
    [type |-> "error", by |-> "uncaughtException", quoted |-> FALSE,
     detail |-> HandlerDetail(e), trace |-> e.stack]

(***************************************************************************)
(* The log of calls to collaborators.                                      *)
(***************************************************************************)
NoCall == [job |-> 0, api |-> "", partNumber |-> 0, partHash |-> <<>>,
           filename |-> <<>>, uploadId |-> "undefined", backup |-> EmptyRecord,
           partsEtag |-> <<>>, hash |-> <<>>, agentId |-> "", publicKey |-> ""]

UrlApis == {"getUploadPartUrl", "getUploadPartUrlFromLocalCredentials"}
FinalizeApis == {"finishUpload", "completeMultipartUpload"}
RemoteApis == {"getUploadPartUrl", "finishUpload"}
LocalApis == {"initMultipartUpload", "getUploadPartUrlFromLocalCredentials",
              "completeMultipartUpload"}

\* generateBackupUrl({ partNumber, partHash }) of a job with config cfg, when
\* the module variable backup holds rec
UrlCall(j, cfg, rec, partNumber, partHash) ==
    IF UrlApi(cfg.subscriptionType) = "getUploadPartUrl"
    THEN [NoCall EXCEPT !.job = j, !.api = "getUploadPartUrl", !.backup = rec,
                        !.partNumber = partNumber, !.agentId = cfg.agentId,
                        !.partHash = partHash]
    ELSE [NoCall EXCEPT !.job = j, !.api = "getUploadPartUrlFromLocalCredentials",
                        !.filename = rec.filename, !.uploadId = rec.s3uploadId,
                        !.partNumber = partNumber, !.partHash = partHash]

\* a finalize call that hands over the pairs in the order last part first
FinalizeCallLastPartFirst(j, cfg, rec, etags, digest) ==
    LET reversed == [n \in 1..Len(etags) |-> etags[Len(etags) + 1 - n]] IN
    IF Finalizer(cfg.subscriptionType) = "finishUpload"
    THEN [NoCall EXCEPT !.job = j, !.api = "finishUpload", !.backup = rec,
                        !.partsEtag = reversed, !.hash = digest,
                        !.agentId = cfg.agentId, !.publicKey = cfg.publicKey]
    ELSE [NoCall EXCEPT !.job = j, !.api = "completeMultipartUpload",
                        !.filename = rec.filename, !.uploadId = rec.s3uploadId,
                        !.partsEtag = reversed]

\* the finalize call of a job, when the module variable backup holds rec
FinalizeCall(j, cfg, rec, etags, digest) ==
    IF Finalizer(cfg.subscriptionType) = "finishUpload"
    THEN [NoCall EXCEPT !.job = j, !.api = "finishUpload", !.backup = rec,
                        !.partsEtag = etags, !.hash = digest,
                        !.agentId = cfg.agentId, !.publicKey = cfg.publicKey]
    ELSE [NoCall EXCEPT !.job = j, !.api = "completeMultipartUpload",
                        !.filename = rec.filename, !.uploadId = rec.s3uploadId,
                        !.partsEtag = etags]

SimpleCall(j, api) == [NoCall EXCEPT !.job = j, !.api = api]

(***************************************************************************)
(* The configuration of src/dist/lib/config.js: fields, sources and the    *)
(* pure parts of getConfig.  A config object is a function from the field  *)
(* names to values; a field the object does not have is Undefined.         *)
(***************************************************************************)
Undefined == "undefined"
\* the boolean false of a JSON file or of a parsed command line
FalseValue == "false"
\* `if (value)`: undefined, false and the empty string are falsy
Truthy(v) == v \notin {Undefined, FalseValue, ""}

\* the fields followed, in the order of configFields
ConfigFieldNames == <<"subscriptionType", "configDirectory", "apikey", "s3bucket",
                      "generateKeyPair", "publicKey", "dbType", "daemon">>
FieldNames == {ConfigFieldNames[n] : n \in DOMAIN ConfigFieldNames}
\* virtual: true
VirtualFields == {"generateKeyPair"}
\* required: true
RequiredFields == {"subscriptionType", "s3bucket", "publicKey", "dbType"}
\* fields with a validate function
ValidatedFields == {"apikey", "s3bucket", "publicKey"}

\* the `if` of a field, evaluated on a config; fields without one always apply
Applies(name, cfg) ==
    CASE name = "apikey" -> cfg.subscriptionType = "premium"
      [] name = "s3bucket" -> cfg.subscriptionType = "free"
      [] name = "generateKeyPair" ->
            ~Truthy(cfg.publicKey) /\ cfg.subscriptionType = "free"
      [] name = "publicKey" -> ~Truthy(cfg.generateKeyPair)
      [] OTHER -> TRUE

\* {}
EmptyConfig == [f \in FieldNames |-> Undefined]

RECURSIVE mergeConfigs(_)
\* mergeConfigs(...configs): a new object that takes, config after config,
\* every non-virtual field whose value is truthy
mergeConfigs(configs) ==
    IF configs = <<>> THEN EmptyConfig
    ELSE LET res == mergeConfigs(SubSeq(configs, 1, Len(configs) - 1))
             last == configs[Len(configs)]
         IN [f \in FieldNames |->
                IF f \notin VirtualFields /\ Truthy(last[f]) THEN last[f] ELSE res[f]]

\* what a validator answers: true, an error text, or it throws
Verdicts == [apikey : {"true", "throws"}, s3bucket : {"true", "Error from S3"},
             publicKey : {"true"}]

\* the error checkConfig finds for a field ("" for none, "throws" when the
\* validator throws), lines 303-315
FieldError(name, cfg, verdict) ==
    IF ~Applies(name, cfg) THEN ""
    ELSE IF name \in RequiredFields /\ ~Truthy(cfg[name]) THEN "Required"
    ELSE IF name \in ValidatedFields /\ verdict[name] # "true" THEN verdict[name]
    ELSE ""

\* checkConfig: the fields in order; a validator that throws ends the loop
\* with its own error, otherwise the fields with an error are collected and
\* thrown as one error when there are any
checkConfig(cfg, verdict) ==
    LET errorAt(n) == FieldError(ConfigFieldNames[n], cfg, verdict)
        throwing == {n \in DOMAIN ConfigFieldNames : errorAt(n) = "throws"}
        failing == {n \in DOMAIN ConfigFieldNames : errorAt(n) \notin {"", "throws"}}
    IN IF throwing # {}
       THEN [outcome |-> "validatorThrew",
             fields |-> {ConfigFieldNames[CHOOSE n \in throwing : \A k \in throwing : n <= k]}]
       ELSE IF failing # {}
       THEN [outcome |-> "errorList", fields |-> {ConfigFieldNames[n] : n \in failing}]
       ELSE [outcome |-> "ok", fields |-> {}]

\* commandLine.configDirectory || '/etc/dbacked'
ConfigDirectoryOf(cl) ==
    IF Truthy(cl.configDirectory) THEN cl.configDirectory ELSE "/etc/dbacked"

ConfigDirectories == {"/etc/dbacked", "/srv/dbacked"}
NoFile == [exists |-> FALSE, content |-> EmptyConfig]

\* the sources getConfig is followed with: contents of /etc/dbacked/config.json,
\* DBACKED_* environment variables (strings), parsed command lines
FileConfigs ==
    {[EmptyConfig EXCEPT !.subscriptionType = t, !.daemon = d, !.dbType = db,
                         !.apikey = IF creds THEN "key" ELSE Undefined,
                         !.s3bucket = IF creds THEN "bucket" ELSE Undefined,
                         !.publicKey = IF creds THEN "PEM" ELSE Undefined] :
        t \in {Undefined, "free", "premium"}, d \in {Undefined, "true"},
        db \in {Undefined, "pg"}, creds \in BOOLEAN}
EnvConfigs ==
    {[EmptyConfig EXCEPT !.subscriptionType = t, !.daemon = d] :
        t \in {Undefined, "premium"}, d \in {Undefined, ""}}
CommandLines ==
    {[EmptyConfig EXCEPT !.subscriptionType = t, !.daemon = d,
                         !.generateKeyPair = g, !.configDirectory = dir] :
        t \in {Undefined, "free"}, d \in {Undefined, FalseValue, "true"},
        g \in {Undefined, "true"}, dir \in {Undefined, "/srv/dbacked"}}

(***************************************************************************)
(* State.                                                                  *)
(***************************************************************************)
VARIABLES
    proc,        \* the worker process: "alive", or how it ended: "exit0", "exit1", "exit7"
    sent,        \* the messages process.send delivered to the Controller, in order
    msgsLeft,    \* messages the Controller may still deliver
    littleEndian,\* the byte order of the host
    njobs,       \* backupDatabase invocations so far
    backup,      \* the module variable `backup`: the job whose record it references, 0: undefined
    record,      \* the record object each invocation created (backupInfo.backup || {})
    config,      \* the config each invocation was given
    pc,          \* where each invocation of backupDatabase stands
    failure,     \* what the catch of each invocation caught
    initTarget,  \* the object `backup.s3uploadId = await ...` assigns to (read before the await)
    calls,       \* the calls made to collaborators, in order
    header,      \* encryptedKey and iv of each job
    written,     \* the envelope bytes written to backupFileStream so far
    dumper,      \* backupStream: "none", "flowing", "paused", "ended"
    bfsBuf,      \* the chunks buffered in backupFileStream
    awaitDrain,  \* the destinations backupFileStream's pipes wait on: "uploadingStream", "hash"
    uplBuf,      \* the bytes buffered in uploadingStream
    uplEnded,    \* uploadingStream.end() was called
    hashState,   \* the rolling state of `hash`
    hashInput,   \* the bytes written to `hash`
    hashEnded,   \* hash.end() was called
    upState,     \* uploadToS3: "idle", "reading", "url", "put"
    curPart,     \* the part uploadToS3 is working on: number and hash
    uploaded,    \* the bytes uploadToS3 read from uploadingStream
    partsEtag,   \* the (part number, ETag) pairs uploadToS3 collected
    configFile,  \* config.js: the content of /etc/dbacked/config.json when getConfig is called
    disk,        \* config.js: the config.json of each configuration directory
    env,         \* config.js: the DBACKED_* environment variables
    commandLine, \* config.js: the parsed command line
    saveOnDisk,  \* config.js: the saveOnDisk option of getConfig
    verdict,     \* config.js: what each validator answers
    getConfigPc, \* config.js: where getConfig stands
    merged,      \* config.js: the local `config` of getConfig
    thrown       \* config.js: what getConfig threw

procVars == <<proc, sent, msgsLeft, littleEndian>>
jobVars == <<njobs, backup, record, config, pc, failure, initTarget, calls, header>>
streamVars == <<written, dumper, bfsBuf, awaitDrain, uplBuf, uplEnded,
                hashState, hashInput, hashEnded>>
uploadVars == <<upState, curPart, uploaded, partsEtag>>
workerVars == <<procVars, jobVars, streamVars, uploadVars>>
configVars == <<configFile, disk, env, commandLine, saveOnDisk, verdict,
                getConfigPc, merged, thrown>>
vars == <<workerVars, configVars>>

NoFailure == [step |-> "none", part |-> 0, error |-> NoError]
NoHeader == [encryptedKey |-> <<>>, iv |-> <<>>]
NoPart == [number |-> 0, hash |-> <<>>]
NothingThrown == [outcome |-> "ok", fields |-> {}]

\* getConfig is not running: the worker gets its config in the start command
ConfigIdle ==
    /\ configFile = EmptyConfig
    /\ disk = [d \in ConfigDirectories |-> NoFile]
    /\ env = EmptyConfig
    /\ commandLine = EmptyConfig
    /\ saveOnDisk = FALSE
    /\ verdict \in {[apikey |-> "true", s3bucket |-> "true", publicKey |-> "true"]}
    /\ getConfigPc = "idle"
    /\ merged = EmptyConfig
    /\ thrown = NothingThrown

\* the state after the module is loaded; the Controller delivers `budget` messages
InitWith(budget) ==
    /\ proc = "alive"
    /\ sent = <<>>
    /\ msgsLeft = budget
    /\ littleEndian \in BOOLEAN
    /\ njobs = 0
    /\ backup = 0
    /\ record = [j \in Jobs |-> EmptyRecord]
    /\ config = [j \in Jobs |-> NoConfig]
    /\ pc = [j \in Jobs |-> "idle"]
    /\ failure = [j \in Jobs |-> NoFailure]
    /\ initTarget = [j \in Jobs |-> 0]
    /\ calls = <<>>
    /\ header = [j \in Jobs |-> NoHeader]
    /\ written = [j \in Jobs |-> <<>>]
    /\ dumper = [j \in Jobs |-> "none"]
    /\ bfsBuf = [j \in Jobs |-> <<>>]
    /\ awaitDrain = [j \in Jobs |-> {}]
    /\ uplBuf = [j \in Jobs |-> <<>>]
    /\ uplEnded = [j \in Jobs |-> FALSE]
    /\ hashState = [j \in Jobs |-> 0]
    /\ hashInput = [j \in Jobs |-> <<>>]
    /\ hashEnded = [j \in Jobs |-> FALSE]
    /\ upState = [j \in Jobs |-> "idle"]
    /\ curPart = [j \in Jobs |-> NoPart]
    /\ uploaded = [j \in Jobs |-> <<>>]
    /\ partsEtag = [j \in Jobs |-> <<>>]
    /\ ConfigIdle

\* the Controller starts one worker per cycle with a single command message
Init == InitWith(1)

(***************************************************************************)
(* Stream primitives of Node the code relies on.                           *)
(***************************************************************************)
\* the bytes a stream buffers after a chunk was written to it
StreamWrite(buffered, chunk) == buffered \o chunk

\* a stream that discards what is written before a reader is attached
DroppedBeforePipe(chunks) == <<>>

\* chunks written to a PassThrough nobody reads yet stay buffered until a pipe
\* is attached (the header, lines 32-37, is written before lines 38-44)
BufferedBeforePipe(chunks) == chunks

\* hash piped from backupStream instead: it would see the ciphertext only
HashedBytesOfDumper(chunk, isHeader) == IF isHeader THEN <<>> ELSE chunk

\* what the pipe of line 44 writes to hash for a chunk backupFileStream emits:
\* hash is piped from backupFileStream, so header chunks reach it like ciphertext
HashedBytes(chunk, isHeader) == chunk

\* dest.write(chunk) returns false once the buffer reached the high-water mark
WriteAccepted(buffered) == Len(buffered) < HighWaterMark

HeaderLen(j) == Len(Flat(HeaderChunks(header[j].encryptedKey, header[j].iv, littleEndian)))

(***************************************************************************)
(* The catch of backupDatabase (lines 92-98): log, send one message,       *)
(* return.  The process is left running.                                   *)
(***************************************************************************)
Catch(j, step, part, e) ==
    /\ sent' = Append(sent, CatchMessage(e))
    /\ pc' = [pc EXCEPT ![j] = "failed"]
    /\ failure' = [failure EXCEPT ![j] = [step |-> step, part |-> part, error |-> e]]

(***************************************************************************)
(* process.on('message') (lines 101-108), with the part of backupDatabase  *)
(* that runs before its first await.                                       *)
(***************************************************************************)
ReceiveMessage(m) ==
    /\ proc = "alive"
    /\ UNCHANGED configVars
    /\ msgsLeft > 0
    /\ njobs < MaxJobs
    /\ msgsLeft' = msgsLeft - 1
    /\ UNCHANGED <<proc, littleEndian, initTarget, header, streamVars, uploadVars>>
    /\ IF ~CallsBackupDatabase(m)
       THEN \* JSON.parse or payload.config threw and the empty catch swallowed
            \* it, or the type is not startBackup
            UNCHANGED <<sent, njobs, backup, record, config, pc, failure, calls>>
       ELSE LET j == njobs + 1 IN
            /\ njobs' = j
            /\ IF ~m.hasBackupInfo
               THEN \* line 18: backupInfo.backup throws inside the try
                    /\ Catch(j, "start", 0, TypeError)
                    /\ UNCHANGED <<backup, record, config, calls>>
               ELSE /\ backup' = j
                    /\ record' = [record EXCEPT ![j] = InitialRecord(m.backupInfo)]
                    /\ IF ~m.hasConfig
                       THEN \* line 19: config.dbType throws inside the try
                            /\ Catch(j, "start", 0, TypeError)
                            /\ UNCHANGED <<config, calls>>
                       ELSE /\ config' = [config EXCEPT ![j] = m.config]
                            /\ pc' = [pc EXCEPT ![j] = "checkDbDumpProgram"]
                            /\ calls' = Append(calls, SimpleCall(j, "checkDbDumpProgram"))
                            /\ UNCHANGED <<sent, failure>>

(***************************************************************************)
(* backupDatabase, one action per resumption after an await.               *)
(***************************************************************************)
\* line 19 returned: the hash is created (line 20), createBackupKey is called (line 23)
CheckDbDumpProgramDone(j) ==
    /\ proc = "alive"
    /\ UNCHANGED configVars
    /\ pc[j] = "checkDbDumpProgram"
    /\ pc' = [pc EXCEPT ![j] = "createBackupKey"]
    /\ hashState' = [hashState EXCEPT ![j] = HashInit]
    /\ calls' = Append(calls, SimpleCall(j, "createBackupKey"))
    /\ UNCHANGED <<procVars, njobs, backup, record, config, failure, initTarget, header,
                   written, dumper, bfsBuf, awaitDrain, uplBuf, uplEnded, hashInput,
                   hashEnded, uploadVars>>

\* line 23 returned the wrapped key: startDumper is called (line 25)
CreateBackupKeyDone(j, encryptedKey) ==
    /\ proc = "alive"
    /\ UNCHANGED configVars
    /\ pc[j] = "createBackupKey"
    /\ pc' = [pc EXCEPT ![j] = "startDumper"]
    /\ header' = [header EXCEPT ![j].encryptedKey = encryptedKey]
    /\ calls' = Append(calls, SimpleCall(j, "startDumper"))
    /\ UNCHANGED <<procVars, njobs, backup, record, config, failure, initTarget,
                   streamVars, uploadVars>>

\* line 25 returned the live stream and the IV.  Lines 27-44 create the two
\* PassThroughs, write the five header chunks and attach the three pipes, all
\* before the event loop runs again; lines 47-50 name the object and open the
\* session in the free tier; otherwise line 52 calls uploadToS3.
StartDumperDone(j, iv, now) ==
    /\ proc = "alive"
    /\ UNCHANGED configVars
    /\ pc[j] = "startDumper"
    /\ header' = [header EXCEPT ![j].iv = iv]
    /\ bfsBuf' = [bfsBuf EXCEPT ![j] =
                     BufferedBeforePipe(HeaderChunks(header[j].encryptedKey, iv, littleEndian))]
    /\ written' = [written EXCEPT ![j] =
                      Flat(HeaderChunks(header[j].encryptedKey, iv, littleEndian))]
    /\ dumper' = [dumper EXCEPT ![j] = "flowing"]
    /\ IF OpensOwnSession(config[j].subscriptionType)
       THEN /\ record' = [record EXCEPT ![backup].filename = ObjectName(config[j].dbName, now)]
            /\ initTarget' = [initTarget EXCEPT ![j] = backup]
            /\ calls' = Append(calls, [SimpleCall(j, "initMultipartUpload")
                                         EXCEPT !.filename = record'[backup].filename])
            /\ pc' = [pc EXCEPT ![j] = "initMultipartUpload"]
            /\ UNCHANGED upState
       ELSE /\ calls' = Append(calls, SimpleCall(j, "uploadToS3"))
            /\ pc' = [pc EXCEPT ![j] = "uploadToS3"]
            /\ upState' = [upState EXCEPT ![j] = "reading"]
            /\ UNCHANGED <<record, initTarget>>
    /\ UNCHANGED <<procVars, njobs, backup, config, failure, awaitDrain, uplBuf, uplEnded,
                   hashState, hashInput, hashEnded, curPart, uploaded, partsEtag>>

\* line 49 returned the session identifier: it is stored in the record read
\* before the await, and line 52 calls uploadToS3
InitMultipartUploadDone(j, uploadId) ==
    /\ proc = "alive"
    /\ UNCHANGED configVars
    /\ pc[j] = "initMultipartUpload"
    /\ record' = [record EXCEPT ![initTarget[j]].s3uploadId = uploadId]
    /\ calls' = Append(calls, SimpleCall(j, "uploadToS3"))
    /\ pc' = [pc EXCEPT ![j] = "uploadToS3"]
    /\ upState' = [upState EXCEPT ![j] = "reading"]
    /\ UNCHANGED <<procVars, njobs, backup, config, failure, initTarget, header,
                   streamVars, curPart, uploaded, partsEtag>>

(***************************************************************************)
(* uploadToS3: reads uploadingStream part by part; for each part it asks   *)
(* generateBackupUrl (lines 54-68) for a URL, transmits the part and keeps *)
(* the ETag; it returns the pairs once the stream is exhausted.            *)
(***************************************************************************)
\* a part is ready: a full part is buffered, or the stream ended with a rest
PartReady(j) ==
    \/ Len(uplBuf[j]) >= PartSize
    \/ uplEnded[j] /\ Len(uplBuf[j]) > 0

\* 'drain' of uploadingStream: its buffer fell below the high-water mark
DrainedUploading(waiting, buffered) ==
    IF Len(buffered) < HighWaterMark THEN waiting \ {"uploadingStream"} ELSE waiting

UploaderTakePart(j) ==
    /\ proc = "alive"
    /\ UNCHANGED configVars
    /\ pc[j] = "uploadToS3"
    /\ upState[j] = "reading"
    /\ PartReady(j)
    /\ LET n == Min(PartSize, Len(uplBuf[j]))
           part == SubSeq(uplBuf[j], 1, n)
           number == Len(partsEtag[j]) + 1
       IN /\ uplBuf' = [uplBuf EXCEPT ![j] = SubSeq(uplBuf[j], n + 1, Len(uplBuf[j]))]
          /\ uploaded' = [uploaded EXCEPT ![j] = uploaded[j] \o part]
          /\ curPart' = [curPart EXCEPT ![j] = [number |-> number, hash |-> Digest(part)]]
          /\ calls' = Append(calls, UrlCall(j, config[j], record[backup], number, Digest(part)))
    /\ awaitDrain' = [awaitDrain EXCEPT ![j] = DrainedUploading(awaitDrain[j], uplBuf'[j])]
    /\ upState' = [upState EXCEPT ![j] = "url"]
    /\ UNCHANGED <<procVars, njobs, backup, record, config, pc, failure, initTarget, header,
                   written, dumper, bfsBuf, uplEnded, hashState, hashInput, hashEnded,
                   partsEtag>>

\* generateBackupUrl returned the URL: the part is transmitted
PartUrlDone(j) ==
    /\ proc = "alive"
    /\ UNCHANGED configVars
    /\ pc[j] = "uploadToS3"
    /\ upState[j] = "url"
    /\ upState' = [upState EXCEPT ![j] = "put"]
    /\ UNCHANGED <<procVars, jobVars, streamVars, curPart, uploaded, partsEtag>>

\* the object store acknowledged the part with an ETag
PartPutDone(j) ==
    /\ proc = "alive"
    /\ UNCHANGED configVars
    /\ pc[j] = "uploadToS3"
    /\ upState[j] = "put"
    /\ partsEtag' = [partsEtag EXCEPT ![j] =
                        Append(partsEtag[j], [PartNumber |-> curPart[j].number,
                                             ETag |-> ETagOf(curPart[j].hash)])]
    /\ upState' = [upState EXCEPT ![j] = "reading"]
    /\ UNCHANGED <<procVars, jobVars, streamVars, curPart, uploaded>>

\* uploadToS3 returned (the stream is exhausted): lines 70-91.  hash.end(),
\* then the finalize call of the tier; with neither tier, process.exit(0).
UploadToS3Done(j) ==
    /\ proc = "alive"
    /\ UNCHANGED configVars
    /\ pc[j] = "uploadToS3"
    /\ upState[j] = "reading"
    /\ uplEnded[j]
    /\ uplBuf[j] = <<>>
    /\ hashEnded' = [hashEnded EXCEPT ![j] = TRUE]
    /\ upState' = [upState EXCEPT ![j] = "idle"]
    /\ IF Finalizer(config[j].subscriptionType) = "none"
       THEN /\ proc' = "exit0"
            /\ pc' = [pc EXCEPT ![j] = "done"]
            /\ UNCHANGED calls
       ELSE /\ calls' = Append(calls, FinalizeCall(j, config[j], record[backup],
                                                   partsEtag[j], Hex(hashState[j])))
            /\ pc' = [pc EXCEPT ![j] = "finalize"]
            /\ UNCHANGED proc
    /\ UNCHANGED <<sent, msgsLeft, littleEndian, njobs, backup, record, config, failure,
                   initTarget, header, written, dumper, bfsBuf, awaitDrain, uplBuf, uplEnded,
                   hashState, hashInput, curPart, uploaded, partsEtag>>

\* the finalize call returned: lines 90-91, process.exit(0)
FinalizeDone(j) ==
    /\ proc = "alive"
    /\ UNCHANGED configVars
    /\ pc[j] = "finalize"
    /\ proc' = "exit0"
    /\ pc' = [pc EXCEPT ![j] = "done"]
    /\ UNCHANGED <<sent, msgsLeft, littleEndian, njobs, backup, record, config, failure,
                   initTarget, calls, header, streamVars, uploadVars>>

\* the awaits of backupDatabase, and the two of uploadToS3 it waits through
AwaitedSteps == {"checkDbDumpProgram", "createBackupKey", "startDumper",
                 "initMultipartUpload", "finalize"}

\* an awaited call rejected with e: the catch runs (lines 92-98)
Reject(j, e) ==
    /\ proc = "alive"
    /\ UNCHANGED configVars
    /\ \/ pc[j] \in AwaitedSteps
       \/ pc[j] = "uploadToS3" /\ upState[j] \in {"url", "put"}
    /\ IF pc[j] = "uploadToS3"
       THEN /\ Catch(j, upState[j], curPart[j].number, e)
            /\ upState' = [upState EXCEPT ![j] = "idle"]
       ELSE /\ Catch(j, pc[j], 0, e)
            /\ UNCHANGED upState
    /\ UNCHANGED <<proc, msgsLeft, littleEndian, njobs, backup, record, config, initTarget,
                   calls, header, streamVars, curPart, uploaded, partsEtag>>

(***************************************************************************)
(* The streams.  backupStream is piped into backupFileStream (line 38),    *)
(* which is piped into uploadingStream (line 43) and into hash (line 44).  *)
(* A pipe writes every chunk the source emits to its destination; when a   *)
(* write returns false the source is paused until that destination drains. *)
(***************************************************************************)
\* backupStream emits a chunk of ciphertext: the pipe writes it to backupFileStream
DumperData(j, chunk) ==
    /\ proc = "alive"
    /\ UNCHANGED configVars
    /\ dumper[j] = "flowing"
    /\ Len(written[j]) - HeaderLen(j) + Len(chunk) <= MaxPayload
    /\ bfsBuf' = [bfsBuf EXCEPT ![j] = Append(bfsBuf[j], chunk)]
    /\ written' = [written EXCEPT ![j] = written[j] \o chunk]
    /\ dumper' = [dumper EXCEPT ![j] =
                     IF WriteAccepted(Flat(bfsBuf'[j])) THEN "flowing" ELSE "paused"]
    /\ UNCHANGED <<procVars, jobVars, awaitDrain, uplBuf, uplEnded, hashState, hashInput,
                   hashEnded, uploadVars>>

\* backupStream ends: the pipe calls backupFileStream.end()
DumperEnd(j) ==
    /\ proc = "alive"
    /\ UNCHANGED configVars
    /\ dumper[j] = "flowing"
    /\ dumper' = [dumper EXCEPT ![j] = "ended"]
    /\ UNCHANGED <<procVars, jobVars, written, bfsBuf, awaitDrain, uplBuf, uplEnded,
                   hashState, hashInput, hashEnded, uploadVars>>

\* backupFileStream emits its next chunk: both pipes write it, uploadingStream
\* first.  hashAccepted is what hash.write returned (false for a chunk of at
\* least its own high-water mark).
FanOut(j, hashAccepted) ==
    /\ proc = "alive"
    /\ UNCHANGED configVars
    /\ dumper[j] # "none"
    /\ awaitDrain[j] = {}
    /\ bfsBuf[j] # <<>>
    /\ LET chunk == Head(bfsBuf[j])
           isHeader == Len(written[j]) - Len(Flat(bfsBuf[j])) < HeaderLen(j)
           hashed == HashedBytes(chunk, isHeader)
       IN /\ uplBuf' = [uplBuf EXCEPT ![j] = StreamWrite(uplBuf[j], chunk)]
          /\ hashState' = [hashState EXCEPT ![j] = HashUpdate(hashState[j], hashed)]
          /\ hashInput' = [hashInput EXCEPT ![j] = hashInput[j] \o hashed]
    /\ awaitDrain' = [awaitDrain EXCEPT ![j] =
                         (IF WriteAccepted(uplBuf'[j]) THEN {} ELSE {"uploadingStream"})
                         \cup (IF hashAccepted THEN {} ELSE {"hash"})]
    /\ bfsBuf' = [bfsBuf EXCEPT ![j] = Tail(bfsBuf[j])]
    /\ dumper' = [dumper EXCEPT ![j] =
                     IF dumper[j] = "paused" /\ WriteAccepted(Flat(bfsBuf'[j]))
                     THEN "flowing" ELSE dumper[j]]
    /\ UNCHANGED <<procVars, jobVars, written, uplEnded, hashEnded, uploadVars>>

\* backupFileStream emits 'end' after its last chunk: the pipes end both destinations
FanOutEnd(j) ==
    /\ proc = "alive"
    /\ UNCHANGED configVars
    /\ dumper[j] = "ended"
    /\ bfsBuf[j] = <<>>
    /\ awaitDrain[j] = {}
    /\ ~uplEnded[j]
    /\ uplEnded' = [uplEnded EXCEPT ![j] = TRUE]
    /\ hashEnded' = [hashEnded EXCEPT ![j] = TRUE]
    /\ UNCHANGED <<procVars, jobVars, written, dumper, bfsBuf, awaitDrain, uplBuf,
                   hashState, hashInput, uploadVars>>

\* hash emits 'drain'
HashDrain(j) ==
    /\ proc = "alive"
    /\ UNCHANGED configVars
    /\ "hash" \in awaitDrain[j]
    /\ awaitDrain' = [awaitDrain EXCEPT ![j] = awaitDrain[j] \ {"hash"}]
    /\ UNCHANGED <<procVars, jobVars, written, dumper, bfsBuf, uplBuf, uplEnded,
                   hashState, hashInput, hashEnded, uploadVars>>

(***************************************************************************)
(* process.on('uncaughtException') (lines 110-118): an error thrown        *)
(* outside the try of backupDatabase, by a callback of the streams or of   *)
(* the dumper the job created.                                             *)
(***************************************************************************)
UncaughtException(e) ==
    /\ proc = "alive"
    /\ UNCHANGED configVars
    /\ \E j \in Jobs : dumper[j] # "none"
    /\ IF HandlerThrows(e)
       THEN \* the handler itself throws: Node ends the process with code 7
            /\ proc' = "exit7"
            /\ UNCHANGED sent
       ELSE /\ sent' = Append(sent, HandlerMessage(e))
            /\ proc' = "exit1"
    /\ UNCHANGED <<msgsLeft, littleEndian, jobVars, streamVars, uploadVars>>

(***************************************************************************)
(* The specification.                                                      *)
(***************************************************************************)
\* the steps a job, its streams and its collaborators take when every call succeeds
Streaming(j) ==
    \/ CheckDbDumpProgramDone(j)
    \/ \E k \in EncryptedKeys : CreateBackupKeyDone(j, k)
    \/ \E iv \in IVs, now \in Instants : StartDumperDone(j, iv, now)
    \/ \E id \in UploadIds : InitMultipartUploadDone(j, id)
    \/ UploaderTakePart(j)
    \/ PartUrlDone(j)
    \/ PartPutDone(j)
    \/ UploadToS3Done(j)
    \/ FinalizeDone(j)
    \/ \E c \in DumpChunks : DumperData(j, c)
    \/ DumperEnd(j)
    \/ \E ok \in BOOLEAN : FanOut(j, ok)
    \/ FanOutEnd(j)
    \/ HashDrain(j)

\* the steps taken without the Controller and without a fault: a call is
\* answered or rejected, a stream callback runs
Progress ==
    \E j \in Jobs :
        \/ Streaming(j)
        \/ \E e \in Errors : Reject(j, e)

Next ==
    \/ \E m \in Messages : ReceiveMessage(m)
    \/ Progress
    \/ \E e \in Errors : UncaughtException(e)

Spec == Init /\ [][Next]_vars

\* every call to a collaborator is answered or rejected, and every stream
\* callback that is due is run
FairSpec == Spec /\ WF_vars(Progress)

\* the runs in which no call is rejected and no fault occurs
NextUnfailing ==
    \/ \E m \in Messages : ReceiveMessage(m)
    \/ \E j \in Jobs : Streaming(j)

\* the dumper ends its stream, both consumers keep consuming and every call
\* is answered
UnfailingSpec == Init /\ [][NextUnfailing]_vars /\ WF_vars(\E j \in Jobs : Streaming(j))

(***************************************************************************)
(* Two commands to one worker: the Controller delivers a second startBackup*)
(* while the first job runs.  The runs followed are those in which the     *)
(* second job is still waiting for its checkDbDumpProgram call and the     *)
(* first job dumps an empty database.                                      *)
(***************************************************************************)
OverlapInit == InitWith(2)

\* the steps of a job whose dump is empty: the dumper ends its stream without
\* a chunk of ciphertext, the envelope is the header
StreamingHeaderOnly(j) ==
    \/ CheckDbDumpProgramDone(j)
    \/ \E k \in EncryptedKeys : CreateBackupKeyDone(j, k)
    \/ \E iv \in IVs, now \in Instants : StartDumperDone(j, iv, now)
    \/ \E id \in UploadIds : InitMultipartUploadDone(j, id)
    \/ UploaderTakePart(j)
    \/ PartUrlDone(j)
    \/ PartPutDone(j)
    \/ UploadToS3Done(j)
    \/ FinalizeDone(j)
    \/ DumperEnd(j)
    \/ \E ok \in BOOLEAN : FanOut(j, ok)
    \/ FanOutEnd(j)
    \/ HashDrain(j)

OverlapNext ==
    \/ \E m \in Messages : ReceiveMessage(m)
    \/ \E j \in {1} : StreamingHeaderOnly(j)

OverlapSpec == OverlapInit /\ [][OverlapNext]_vars

(***************************************************************************)
(* The hash alone: the pipe of line 44 writes backupFileStream's chunks to *)
(* hash one by one.  Two backupFileStreams are loaded with two different   *)
(* chunkings of the same bytes and flushed through the fan-out.            *)
(***************************************************************************)
\* the byte strings whose chunkings are compared
ByteStrings == UNION {[1..n -> CipherBytes] : n \in 1..MaxHashed}

RECURSIVE ChunkingsOf(_)
\* every way of writing a byte string as a sequence of non-empty chunks
ChunkingsOf(bytes) ==
    IF bytes = <<>> THEN {<<>>}
    ELSE UNION {{<<SubSeq(bytes, 1, n)>> \o rest :
                    rest \in ChunkingsOf(SubSeq(bytes, n + 1, Len(bytes)))} :
                n \in 1..Len(bytes)}

\* streams 1 and 2 hold the same bytes cut into chunks in two different
\* ways, their source has ended, and each has a fresh hash piped to it
HashingInit ==
    /\ proc = "alive"
    /\ sent = <<>>
    /\ msgsLeft = 0
    /\ littleEndian \in BOOLEAN
    /\ njobs = 0
    /\ backup = 0
    /\ record = [j \in Jobs |-> EmptyRecord]
    /\ config = [j \in Jobs |-> NoConfig]
    /\ pc = [j \in Jobs |-> "idle"]
    /\ failure = [j \in Jobs |-> NoFailure]
    /\ initTarget = [j \in Jobs |-> 0]
    /\ calls = <<>>
    /\ header = [j \in Jobs |-> NoHeader]
    /\ \E bytes \in ByteStrings :
          \E c1 \in ChunkingsOf(bytes), c2 \in ChunkingsOf(bytes) :
              /\ c1 # c2
              /\ bfsBuf = [j \in Jobs |-> IF j = 1 THEN c1 ELSE IF j = 2 THEN c2 ELSE <<>>]
              /\ written = [j \in Jobs |-> IF j \in {1, 2} THEN bytes ELSE <<>>]
    /\ dumper = [j \in Jobs |-> "ended"]
    /\ awaitDrain = [j \in Jobs |-> {}]
    /\ uplBuf = [j \in Jobs |-> <<>>]
    /\ uplEnded = [j \in Jobs |-> FALSE]
    /\ hashState = [j \in Jobs |-> HashInit]
    /\ hashInput = [j \in Jobs |-> <<>>]
    /\ hashEnded = [j \in Jobs |-> FALSE]
    /\ upState = [j \in Jobs |-> "idle"]
    /\ curPart = [j \in Jobs |-> NoPart]
    /\ uploaded = [j \in Jobs |-> <<>>]
    /\ partsEtag = [j \in Jobs |-> <<>>]
    /\ ConfigIdle

HashingNext ==
    \E j \in Jobs :
        \/ \E ok \in BOOLEAN : FanOut(j, ok)
        \/ HashDrain(j)
        \/ FanOutEnd(j)

HashingSpec == HashingInit /\ [][HashingNext]_vars

(***************************************************************************)
(* getConfig (config.js, lines 324-351), not interactive.                  *)
(***************************************************************************)
\* getConfig is called: any file, environment, command line and option
ConfigInit ==
    /\ proc = "alive"
    /\ sent = <<>>
    /\ msgsLeft = 0
    /\ littleEndian \in {TRUE}
    /\ njobs = 0
    /\ backup = 0
    /\ record = [j \in Jobs |-> EmptyRecord]
    /\ config = [j \in Jobs |-> NoConfig]
    /\ pc = [j \in Jobs |-> "idle"]
    /\ failure = [j \in Jobs |-> NoFailure]
    /\ initTarget = [j \in Jobs |-> 0]
    /\ calls = <<>>
    /\ header = [j \in Jobs |-> NoHeader]
    /\ written = [j \in Jobs |-> <<>>]
    /\ dumper = [j \in Jobs |-> "none"]
    /\ bfsBuf = [j \in Jobs |-> <<>>]
    /\ awaitDrain = [j \in Jobs |-> {}]
    /\ uplBuf = [j \in Jobs |-> <<>>]
    /\ uplEnded = [j \in Jobs |-> FALSE]
    /\ hashState = [j \in Jobs |-> 0]
    /\ hashInput = [j \in Jobs |-> <<>>]
    /\ hashEnded = [j \in Jobs |-> FALSE]
    /\ upState = [j \in Jobs |-> "idle"]
    /\ curPart = [j \in Jobs |-> NoPart]
    /\ uploaded = [j \in Jobs |-> <<>>]
    /\ partsEtag = [j \in Jobs |-> <<>>]
    /\ configFile \in FileConfigs
    /\ disk = [d \in ConfigDirectories |->
                 IF d = "/etc/dbacked" THEN [exists |-> TRUE, content |-> configFile]
                 ELSE NoFile]
    /\ env \in EnvConfigs
    /\ commandLine \in CommandLines
    /\ saveOnDisk \in BOOLEAN
    /\ verdict \in Verdicts
    /\ getConfigPc = "start"
    /\ merged = EmptyConfig
    /\ thrown = NothingThrown

\* lines 325-342: the config file of the configuration directory is read and
\* merged when it is there, then the environment, then the command line
MergeSources ==
    /\ getConfigPc = "start"
    /\ LET base == [EmptyConfig EXCEPT !.configDirectory = ConfigDirectoryOf(commandLine)]
           file == disk[base.configDirectory]
           fromFile == IF file.exists THEN mergeConfigs(<<base, file.content>>) ELSE base
           fromEnv == mergeConfigs(<<fromFile, env>>)
       IN merged' = mergeConfigs(<<fromEnv, commandLine>>)
    /\ getConfigPc' = "checkConfig"
    /\ UNCHANGED <<workerVars, configFile, disk, env, commandLine, saveOnDisk, verdict, thrown>>

\* line 346: checkConfig passes or throws; lines 347-350 save or return
CheckConfigDone ==
    /\ getConfigPc = "checkConfig"
    /\ LET result == checkConfig(merged, verdict) IN
       IF result.outcome = "ok"
       THEN /\ getConfigPc' = IF saveOnDisk THEN "saveConfig" ELSE "returned"
            /\ UNCHANGED thrown
       ELSE /\ getConfigPc' = "threw"
            /\ thrown' = result
    /\ UNCHANGED <<workerVars, configFile, disk, env, commandLine, saveOnDisk, verdict, merged>>

\* saveConfig (lines 255-267): config.json of config.configDirectory is
\* written, or the write fails and is only logged; line 350 returns
SaveConfigDone(writes) ==
    /\ getConfigPc = "saveConfig"
    /\ disk' = IF writes
               THEN [disk EXCEPT ![merged.configDirectory] =
                                    [exists |-> TRUE, content |-> merged]]
               ELSE disk
    /\ getConfigPc' = "returned"
    /\ UNCHANGED <<workerVars, configFile, env, commandLine, saveOnDisk, verdict, merged, thrown>>

ConfigNext ==
    \/ MergeSources
    \/ CheckConfigDone
    \/ \E writes \in BOOLEAN : SaveConfigDone(writes)

ConfigSpec == ConfigInit /\ [][ConfigNext]_vars

(***************************************************************************)
(* Properties.                                                             *)
(***************************************************************************)
IsPrefix(s, t) == Len(s) <= Len(t) /\ SubSeq(t, 1, Len(s)) = s

\* the positions in the call log of the calls job j made to the given collaborators
CallsOf(j, apis) == {i \in DOMAIN calls : calls[i].job = j /\ calls[i].api \in apis}

\* the positions of the messages the catch of backupDatabase sent
CatchMessages == {i \in DOMAIN sent : sent[i].by = "catch"}

\* the header bytes of job j
HeaderBytes(j) == Flat(HeaderChunks(header[j].encryptedKey, header[j].iv, littleEndian))

\* job j was started by a well-formed startBackup command
Started(j) == config[j] \in Configs

\* C1: a job started with a valid config yields exactly one terminal outcome:
\* at most one error message is ever sent, a success exit comes with no
\* message, and a process that ended otherwise has sent exactly one message.
C1_ExactlyOneOutcome ==
    \A j \in Jobs :
        Started(j) =>
            /\ Len(sent) <= 1
            /\ (proc = "exit0" => sent = <<>>)
            /\ (proc \in {"exit1", "exit7"} => Len(sent) = 1)

\* C2: once the catch of a job has sent its error message the worker process
\* ends without further input, and no collaborator is called any more.
C2_FailedJobStops ==
    /\ \A j \in Jobs : (pc[j] = "failed") ~> (proc # "alive")
    /\ [][(\E j \in Jobs : pc[j] = "failed") => calls' = calls]_vars

\* C3: when a finalize call is made the hash has been ended and has consumed
\* the whole envelope, header included, the dumper's stream has ended and is
\* flushed, and the hash handed to finishUpload is the digest of the envelope.
C3_FinalizeAfterHashEnd ==
    \A i \in DOMAIN calls :
        calls[i].api \in FinalizeApis =>
            LET j == calls[i].job IN
            /\ hashEnded[j]
            /\ dumper[j] = "ended"
            /\ bfsBuf[j] = <<>>
            /\ IsPrefix(HeaderBytes(j), written[j])
            /\ hashInput[j] = written[j]
            /\ (calls[i].api = "finishUpload" => calls[i].hash = Digest(written[j]))

\* a finishUpload call was made for an envelope with ciphertext after the header
C3_Witness ==
    \E i \in DOMAIN calls :
        /\ calls[i].api = "finishUpload"
        /\ Len(written[calls[i].job]) > Len(HeaderBytes(calls[i].job))

\* C4: at every moment the bytes hash received, and the bytes the uploader
\* read followed by those uploadingStream still buffers, are the envelope
\* written so far less what backupFileStream still buffers; the envelope
\* starts with the header; once uploadToS3 has returned both consumers have
\* received the whole envelope.
C4_FanOutDeliversEnvelope ==
    \A j \in Jobs :
        /\ hashInput[j] \o Flat(bfsBuf[j]) = written[j]
        /\ uploaded[j] \o uplBuf[j] \o Flat(bfsBuf[j]) = written[j]
        /\ (dumper[j] # "none" => IsPrefix(HeaderBytes(j), written[j]))
        /\ (pc[j] \in {"finalize", "done"} =>
                hashInput[j] = written[j] /\ uploaded[j] = written[j])

\* uploadToS3 returned after several parts, for an envelope with ciphertext
C4_Witness ==
    \E j \in Jobs :
        /\ pc[j] = "finalize"
        /\ Len(partsEtag[j]) >= 3
        /\ Len(written[j]) = Len(HeaderBytes(j)) + MaxPayload

\* C5: when the dumper ends its stream, both consumers keep consuming and no
\* call fails, a job whose streams are set up gets every envelope byte to the
\* hash and to the uploader and reaches the finalize step (or, with neither
\* tier, the exit that follows uploadToS3).
C5_FanOutProgress ==
    <>[](\A j \in Jobs :
            dumper[j] # "none" =>
                /\ pc[j] \in {"finalize", "done"}
                /\ hashInput[j] = written[j]
                /\ uploaded[j] = written[j])

\* the uploader is the slower consumer: the fan-out waits for uploadingStream
\* to drain and the dumper is paused behind it
C5_Witness ==
    \E j \in Jobs :
        /\ pc[j] = "uploadToS3"
        /\ "uploadingStream" \in awaitDrain[j]
        /\ dumper[j] = "paused"

\* what an error message has to carry for an error: the error code if there
\* is one, else the body of the remote response if there is one, else the message
ReportedDetail(e) ==
    IF e.code # "" THEN e.code ELSE IF e.hasResponse THEN e.data ELSE e.message

\* C6: when the URL request for part k was rejected, the job has failed, the
\* URL requests of the job are those for parts 1..k and no more, no finalize
\* call was made, and the catch sent exactly one message, the first the
\* Controller gets, which carries the detail of the rejection.
C6_UrlRejectionAborts ==
    \A j \in Jobs :
        failure[j].step = "url" =>
            /\ pc[j] = "failed"
            /\ {calls[i].partNumber : i \in CallsOf(j, UrlApis)} = 1..failure[j].part
            /\ Cardinality(CallsOf(j, UrlApis)) = failure[j].part
            /\ CallsOf(j, FinalizeApis) = {}
            /\ CatchMessages = {1}
            /\ sent[1].type = "error"
            /\ sent[1].detail = ReportedDetail(failure[j].error)

\* the URL request for part 2 was rejected while bytes of later parts are buffered
C6_Witness ==
    \E j \in Jobs :
        /\ failure[j].step = "url"
        /\ failure[j].part = 2
        /\ uplBuf[j] # <<>>

\* C7: the process exits with code 0 only after a job made exactly one
\* finalize call and that call returned; no message was sent.
C7_SuccessOnlyAfterFinalize ==
    proc = "exit0" =>
        /\ sent = <<>>
        /\ \E j \in Jobs : pc[j] = "done" /\ Cardinality(CallsOf(j, FinalizeApis)) = 1

\* the shape { type: "startBackup", payload: { config, backupInfo } }
WellShaped(m) ==
    m.json /\ m.type = "startBackup" /\ m.hasPayload /\ m.hasConfig /\ m.hasBackupInfo

\* C8: receiving a message that is not of the startBackup shape changes
\* nothing: no job step is started, no collaborator is called and no message
\* is sent.
C8_MalformedIgnored ==
    [][\A m \in Messages :
          (ReceiveMessage(m) /\ ~WellShaped(m)) =>
              /\ sent' = sent
              /\ calls' = calls
              /\ pc' = pc
              /\ backup' = backup]_vars

\* C9: a job of the free tier calls initMultipartUpload at most once and
\* never the remote control plane; each of its part URL requests and its
\* completeMultipartUpload call comes after the initMultipartUpload call and
\* carries the object name given to that call, backup_<dbName>_<ddLLyyyyHHmm>,
\* and the session identifier that call returned.
C9_DirectTierOwnSession ==
    \A j \in Jobs :
        (Started(j) /\ config[j].subscriptionType = "free") =>
            LET inits == CallsOf(j, {"initMultipartUpload"}) IN
            /\ Cardinality(inits) <= 1
            /\ CallsOf(j, RemoteApis) = {}
            /\ \A i \in inits :
                  \E t \in Instants :
                      calls[i].filename = <<"backup_", config[j].dbName, "_",
                                            t.day, t.month, t.year, t.hour, t.minute>>
            /\ \A u \in CallsOf(j, UrlApis \cup FinalizeApis) :
                  /\ \E i \in inits : i < u /\ calls[u].filename = calls[i].filename
                  /\ calls[u].uploadId \in UploadIds
                  /\ calls[u].uploadId = record[j].s3uploadId

\* a free-tier job made its completeMultipartUpload call after several parts
C9_Witness ==
    \E j \in Jobs :
        /\ config[j].subscriptionType = "free"
        /\ CallsOf(j, {"completeMultipartUpload"}) # {}
        /\ Len(partsEtag[j]) >= 2

\* the bytes of part k of job j, as uploadToS3 cut them
PartBytes(j, k) ==
    SubSeq(uploaded[j], (k - 1) * PartSize + 1, Min(k * PartSize, Len(uploaded[j])))

\* C10: a job of the premium tier calls neither initMultipartUpload nor
\* getUploadPartUrlFromLocalCredentials nor completeMultipartUpload; each part
\* URL is asked of getUploadPartUrl with the part number, the hash of the part
\* and the agent identifier; its finalize call is finishUpload; the record it
\* hands to both is the Controller's, whose object name and session
\* identifier the worker never sets.
C10_DelegatedTierRemoteOnly ==
    \A j \in Jobs :
        (Started(j) /\ config[j].subscriptionType = "premium") =>
            /\ CallsOf(j, LocalApis) = {}
            /\ record[j] \in {InitialRecord(info) : info \in BackupInfos}
            /\ record[j].filename = <<>>
            /\ record[j].s3uploadId = "undefined"
            /\ \A u \in CallsOf(j, UrlApis) :
                  /\ calls[u].api = "getUploadPartUrl"
                  /\ calls[u].partNumber >= 1
                  /\ calls[u].partHash = Digest(PartBytes(j, calls[u].partNumber))
                  /\ calls[u].agentId = config[j].agentId
                  /\ calls[u].backup = record[j]
            /\ \A f \in CallsOf(j, FinalizeApis) :
                  /\ calls[f].api = "finishUpload"
                  /\ calls[f].backup = record[j]
                  /\ calls[f].agentId = config[j].agentId
                  /\ calls[f].publicKey = config[j].publicKey

\* a premium-tier job handed the record the Controller seeded to finishUpload
C10_Witness ==
    \E i \in DOMAIN calls :
        /\ calls[i].api = "finishUpload"
        /\ calls[i].backup = SeededRecord
        /\ Len(partsEtag[calls[i].job]) >= 2

\* C11: the envelope of a job starts with the magic bytes, the format
\* version, the four bytes of the wrapped-key length, the wrapped key and the
\* IV, in that order; the first write to the envelope is the whole header, and
\* every later write appends one chunk of the dumper behind what is written.
C11_HeaderBeforeCiphertext ==
    /\ [](\A j \in Jobs :
            written[j] # <<>> =>
                IsPrefix(Magic \o VERSION
                           \o Uint32Bytes(Len(header[j].encryptedKey), littleEndian)
                           \o header[j].encryptedKey \o header[j].iv,
                         written[j]))
    /\ [][\A j \in Jobs :
            written'[j] # written[j] =>
                IF written[j] = <<>>
                THEN /\ dumper[j] = "none"
                     /\ written'[j] = Magic \o VERSION
                           \o Uint32Bytes(Len(header'[j].encryptedKey), littleEndian)
                           \o header'[j].encryptedKey \o header'[j].iv
                ELSE \E c \in DumpChunks : written'[j] = written[j] \o c]_vars

\* the dumper wrote ciphertext while the header was still buffered, unread
C11_Witness ==
    \E j \in Jobs :
        /\ Len(written[j]) > Len(HeaderBytes(j))
        /\ hashInput[j] = <<>>
        /\ uplBuf[j] = <<>>
        /\ Len(bfsBuf[j]) > 5

IvWidth == Len(CHOOSE iv \in IVs : TRUE)

\* the unsigned integer four bytes encode, least significant byte first
Uint32LE(b) == b[1] + 256 * b[2] + 65536 * b[3] + 16777216 * b[4]

\* a reader of the envelope layout: 7 bytes of magic, the format version, a
\* 4-byte unsigned length, that many bytes of wrapped key, the IV; fields the
\* bytes do not hold are cut short
ParseHeader(bytes) ==
    LET field(from, n) == SubSeq(bytes, Min(from, Len(bytes) + 1),
                                 Min(from + n - 1, Len(bytes)))
        atLength == Len(Magic) + Len(VERSION) + 1
        keyLength == Uint32LE(field(atLength, 4) \o <<0, 0, 0, 0>>)
    IN [magic |-> field(1, Len(Magic)),
        version |-> field(Len(Magic) + 1, Len(VERSION)),
        keyLength |-> keyLength,
        encryptedKey |-> field(atLength + 4, keyLength),
        iv |-> field(atLength + 4 + keyLength, IvWidth)]

\* C13: reading the written envelope back gives the magic bytes, the format
\* version, a length equal to the number of bytes of the wrapped key, the
\* wrapped key and the IV the worker was given; and bytes once written are
\* never changed, the envelope only grows.
C13_HeaderRoundTrip ==
    /\ [](\A j \in Jobs :
            written[j] # <<>> =>
                ParseHeader(written[j]) =
                    [magic |-> Magic, version |-> VERSION,
                     keyLength |-> Len(header[j].encryptedKey),
                     encryptedKey |-> header[j].encryptedKey,
                     iv |-> header[j].iv])
    /\ [][\A j \in Jobs : IsPrefix(written[j], written'[j])]_vars

\* C14: every part URL request and every finalize call of a job carries that
\* job's own record: the record itself in the premium tier, its object name
\* and session identifier otherwise.
C14_OwnRecordOnly ==
    \A i \in DOMAIN calls :
        calls[i].api \in UrlApis \cup FinalizeApis =>
            LET j == calls[i].job IN
            IF calls[i].api \in RemoteApis
            THEN calls[i].backup = record[j]
            ELSE /\ calls[i].filename = record[j].filename
                 /\ calls[i].uploadId = record[j].s3uploadId

\* the phase of the job's state machine a position of backupDatabase lies in
PhaseOf(p) ==
    CASE p \in {"idle", "checkDbDumpProgram"} -> "Idle"
      [] p = "createBackupKey" -> "DumperReady"
      [] p = "startDumper" -> "KeysReady"
      [] p \in {"initMultipartUpload", "uploadToS3"} -> "StreamingUpload"
      [] p = "finalize" -> "Finalizing"
      [] p = "done" -> "Succeeded"
      [] p = "failed" -> "Failed"

\* the state machine: Idle, DumperReady, KeysReady, StreamingUpload,
\* Finalizing, Succeeded, and Failed from every phase that is not terminal
PhaseSteps ==
    {<<"Idle", "DumperReady">>, <<"DumperReady", "KeysReady">>,
     <<"KeysReady", "StreamingUpload">>, <<"StreamingUpload", "Finalizing">>,
     <<"Finalizing", "Succeeded">>}
    \cup {<<ph, "Failed">> : ph \in {"Idle", "DumperReady", "KeysReady",
                                      "StreamingUpload", "Finalizing"}}

\* the calls of a job in the order of the protocol
StepOrder == <<"checkDbDumpProgram", "createBackupKey", "startDumper",
               "initMultipartUpload", "uploadToS3", "finishUpload",
               "completeMultipartUpload">>

\* the call that has to have returned before a call is made
PredecessorOf(api, subscriptionType) ==
    CASE api = "createBackupKey" -> "checkDbDumpProgram"
      [] api = "startDumper" -> "createBackupKey"
      [] api = "initMultipartUpload" -> "startDumper"
      [] api = "uploadToS3" ->
            IF subscriptionType = "free" THEN "initMultipartUpload" ELSE "startDumper"
      [] api \in FinalizeApis -> "uploadToS3"
      [] OTHER -> "none"

\* C15: a job changes phase only along the state machine; it makes each call
\* of the protocol at most once and only after the call before it was made
\* and did not fail; a job that succeeded or failed makes no call any more.
C15_PhasesInOrder ==
    /\ [](\A j \in Jobs :
            /\ \A n \in DOMAIN StepOrder : Cardinality(CallsOf(j, {StepOrder[n]})) <= 1
            /\ Cardinality(CallsOf(j, FinalizeApis)) <= 1
            /\ \A i \in CallsOf(j, {StepOrder[n] : n \in DOMAIN StepOrder}) :
                  LET before == PredecessorOf(calls[i].api, config[j].subscriptionType) IN
                  before # "none" =>
                      /\ \E k \in CallsOf(j, {before}) : k < i
                      /\ failure[j].step # before)
    /\ [][\A j \in Jobs :
            /\ PhaseOf(pc'[j]) # PhaseOf(pc[j]) =>
                   <<PhaseOf(pc[j]), PhaseOf(pc'[j])>> \in PhaseSteps
            /\ pc[j] \in {"done", "failed"} =>
                   {i \in DOMAIN calls' : calls'[i].job = j}
                       = {i \in DOMAIN calls : calls[i].job = j}]_vars

\* C16: the part URL requests of a job carry the numbers 1, 2, ... in that
\* order, one request per number; the acknowledged pairs are numbered 1..n in
\* order and lag the requests by at most one; the list a finalize call carries
\* is the list of pairs uploadToS3 collected, the ETag the object store gave
\* for each part at its number.
C16_PartsInOrder ==
    \A j \in Jobs :
        LET urls == CallsOf(j, UrlApis) IN
        /\ {calls[i].partNumber : i \in urls} = 1..Cardinality(urls)
        /\ \A i, k \in urls : i < k => calls[i].partNumber < calls[k].partNumber
        /\ \A n \in DOMAIN partsEtag[j] :
              /\ partsEtag[j][n].PartNumber = n
              /\ partsEtag[j][n].ETag = <<"etag">> \o Digest(PartBytes(j, n))
        /\ Len(partsEtag[j]) <= Cardinality(urls)
        /\ Cardinality(urls) <= Len(partsEtag[j]) + 1
        /\ \A f \in CallsOf(j, FinalizeApis) :
              /\ calls[f].partsEtag = partsEtag[j]
              /\ Len(calls[f].partsEtag) = Cardinality(urls)
              /\ \A i \in urls : i < f

\* a completeMultipartUpload call carried the pairs of three parts
C16_Witness ==
    \E i \in DOMAIN calls :
        /\ calls[i].api = "completeMultipartUpload"
        /\ Len(calls[i].partsEtag) = 3

\* C17: both error paths build their message: the uncaughtException handler
\* never throws while building it (Node would end the process with code 7),
\* every message sent has type "error" and carries the detail of an error
\* (code, else response body, else message) and its trace, and the catch of a
\* failed job sent the detail of the error it caught.
C17_ErrorPayloadBuilt ==
    /\ proc # "exit7"
    /\ \A i \in DOMAIN sent :
          /\ sent[i].type = "error"
          /\ \E e \in Errors \cup {TypeError} :
                /\ sent[i].detail = ReportedDetail(e)
                /\ sent[i].trace = e.stack
    /\ \A j \in Jobs :
          pc[j] = "failed" =>
              \E i \in CatchMessages :
                  /\ sent[i].detail = ReportedDetail(failure[j].error)
                  /\ sent[i].trace = failure[j].error.stack

\* the sources of getConfig from first to last: the config file that was read
\* (none when the directory has no file), the environment, the command line
SourcesInOrder ==
    (IF ConfigDirectoryOf(commandLine) = "/etc/dbacked" THEN <<configFile>> ELSE <<>>)
        \o <<env, commandLine>>

\* the value of a field in the latest source that defines it
LatestDefined(f) ==
    LET defining == {n \in DOMAIN SourcesInOrder : SourcesInOrder[n][f] # Undefined} IN
    IF defining = {} THEN Undefined
    ELSE SourcesInOrder[CHOOSE n \in defining : \A k \in defining : k <= n][f]

\* C18: once getConfig has merged its sources, every non-virtual field (the
\* configuration directory apart, which has a default) has the value of the
\* latest of file, environment and command line that defines it: a value on
\* the command line wins whatever it is.
C18_LatestDefinedWins ==
    getConfigPc \notin {"idle", "start"} =>
        \A f \in FieldNames \ (VirtualFields \cup {"configDirectory"}) :
            merged[f] = LatestDefined(f)

\* the applicable fields of a config that are required and missing or that
\* fail their validator
FailingFields(cfg) ==
    {f \in FieldNames :
        /\ Applies(f, cfg)
        /\ \/ f \in RequiredFields /\ ~Truthy(cfg[f])
           \/ f \in ValidatedFields /\ verdict[f] # "true"}

\* C19: getConfig saves and returns only a config with no failing field; when
\* there is one, it throws one error that lists every failing field and only
\* applicable fields, and the config files are as they were.
C19_InvalidNeverSaved ==
    /\ getConfigPc \in {"saveConfig", "returned"} => FailingFields(merged) = {}
    /\ getConfigPc = "checkConfig" => thrown = NothingThrown
    /\ getConfigPc = "threw" =>
          /\ FailingFields(merged) # {}
          /\ thrown.outcome = "errorList"
          /\ thrown.fields = FailingFields(merged)
          /\ \A f \in thrown.fields : Applies(f, merged)
          /\ disk["/etc/dbacked"] = [exists |-> TRUE, content |-> configFile]
          /\ disk["/srv/dbacked"] = NoFile

====
